---- MODULE Spec2Model ----
(***************************************************************************)
(* A model of src/app.py, the creative reporting generator: the asset      *)
(* matcher find_best_matching_image, the image fit resize_image, the       *)
(* metric aggregation calculate_metrics and the per-variant loop of        *)
(* create_ppt_from_data.                                                   *)
(*                                                                         *)
(* Conventions.  A Python string is a sequence of one-character strings.   *)
(* A Python float that is a quotient of two small integers is the pair     *)
(* <<numerator, denominator>>, compared by cross multiplication.  None is  *)
(* the value None below; an unbound local variable is the empty tuple and   *)
(* a bound one the one-element tuple of its value.                         *)
(***************************************************************************)
EXTENDS Integers, Sequences, FiniteSets, TLC

VARIABLES
    call,          \* pure-function specifications: the arguments of the call
    ret,           \* pure-function specifications: the value returned
    df,            \* create_ppt_from_data: the dataset, a sequence of rows
    images_dict,   \* create_ppt_from_data: [keys: file names in insertion order, img: key -> image]
    report_type,   \* "CTR Report" or "VCR Report"
    pc,            \* position in create_ppt_from_data: "loop", "done", "raised"
    it,            \* number of items the enumerate() iterator has yielded
    index,         \* loop variable index (unbound before the first iteration)
    variant,       \* loop variable variant (unbound before the first iteration)
    image_width,   \* local image_width (unbound until first assigned)
    image_height,  \* local image_height (unbound until first assigned)
    slide,         \* the shapes added to the slide, in order
    errors,        \* the st.error messages, in order: the variant each one names
    pptx_buffer    \* the buffer returned (unbound until the function returns)

vars == <<call, ret, df, images_dict, report_type, pc, it, index, variant,
          image_width, image_height, slide, errors, pptx_buffer>>

loopVars == <<df, images_dict, report_type, pc, it, index, variant,
              image_width, image_height, slide, errors, pptx_buffer>>

-----------------------------------------------------------------------------
(* Bounds of the model *)

MaxLen == 2
MaxKeys == 2
MaxKeyChars == 4

-----------------------------------------------------------------------------
(* Python values *)

None == <<"None">>
Unbound == <<>>
Bound(v) == <<v>>
ValueOf(local) == local[1]

Max(a, b) == IF a >= b THEN a ELSE b

\* quotients of small integers, as the floats they are compared as
Zero == <<0, 1>>
Gt(x, y) == x[1] * y[2] > y[1] * x[2]
Ge(x, y) == x[1] * y[2] >= y[1] * x[2]
Eq(x, y) == x[1] * y[2] = y[1] * x[2]

-----------------------------------------------------------------------------
(* Strings *)

Chars == {"a", "B", "."}

StringsOfLen(n) == [1..n -> Chars]
Strings(n) == UNION {StringsOfLen(k) : k \in 0..n}

isalnum(c) == c \in {"a", "b", "A", "B"}
lower(c) == IF c = "A" THEN "a" ELSE IF c = "B" THEN "b" ELSE c
isspace(c) == c = " "

RECURSIVE clean_string(_)
clean_string(s) ==
    IF s = <<>> THEN <<>>
    ELSE (IF isalnum(Head(s)) THEN <<lower(Head(s))>> ELSE <<>>) \o clean_string(Tail(s))

\* os.path.splitext(p)[0] for a name with no directory separator: the part
\* before the last dot, unless only dots precede it
splitext_root(p) ==
    LET dots == {i \in 1..Len(p) : p[i] = "."}
        dotIndex == IF dots = {} THEN 0 ELSE CHOOSE i \in dots : \A j \in dots : j <= i
    IN  IF dotIndex > 0 /\ \E i \in 1..(dotIndex - 1) : p[i] # "."
        THEN SubSeq(p, 1, dotIndex - 1)
        ELSE p

\* needle in hay
Contains(hay, needle) ==
    \E i \in 0..(Len(hay) - Len(needle)) : SubSeq(hay, i + 1, i + Len(needle)) = needle

\* set(s.split()): the maximal runs of non-whitespace characters
split_set(s) ==
    {SubSeq(s, i, j) : <<i, j>> \in
        {p \in (1..Len(s)) \X (1..Len(s)) :
            /\ p[1] <= p[2]
            /\ \A k \in p[1]..p[2] : ~isspace(s[k])
            /\ (p[1] = 1 \/ isspace(s[p[1] - 1]))
            /\ (p[2] = Len(s) \/ isspace(s[p[2] + 1]))}}

CharSet(s) == {s[i] : i \in 1..Len(s)}

-----------------------------------------------------------------------------
(* find_best_matching_image *)

SubstringSimilarity == <<4, 5>>
DefaultThreshold == <<3, 5>>

\* a variant of the pair similarity that applies the substring rule in one
\* direction only (the variant name inside the file name)
SimilarityOneWay(clean_img_name, clean_variant) ==
    IF Contains(clean_img_name, clean_variant)
    THEN SubstringSimilarity
    ELSE <<Cardinality(CharSet(clean_img_name) \cap CharSet(clean_variant)),
           Max(1, Cardinality(CharSet(clean_img_name \o clean_variant)))>>

\* the similarity of one pair, lines 114-125
Similarity(clean_img_name, clean_variant) ==
    IF Contains(clean_variant, clean_img_name) \/ Contains(clean_img_name, clean_variant)
    THEN SubstringSimilarity
    ELSE LET variant_words == split_set(clean_variant)
             img_words == split_set(clean_img_name)
             common_words == variant_words \cap img_words
         IN  IF common_words # {}
             THEN <<Cardinality(common_words),
                    Max(Cardinality(variant_words), Cardinality(img_words))>>
             ELSE <<Cardinality(CharSet(clean_img_name) \cap CharSet(clean_variant)),
                    Cardinality(CharSet(clean_img_name \o clean_variant))>>

KeySimilarity(variant_name, img_name) ==
    Similarity(clean_string(splitext_root(img_name)), clean_string(variant_name))

\* one pass of the loop body, lines 127-129: acc = <<best_match, highest_similarity>>
ReplacesStrict(similarity, highest_similarity) == Gt(similarity, highest_similarity)
ReplacesOnTie(similarity, highest_similarity) == Ge(similarity, highest_similarity)
Replaces(similarity, highest_similarity) == ReplacesStrict(similarity, highest_similarity)

RECURSIVE BestMatchLoop(_, _, _)
BestMatchLoop(variant_name, image_files, acc) ==
    IF image_files = <<>> THEN acc
    ELSE LET img_name == Head(image_files)
             similarity == KeySimilarity(variant_name, img_name)
         IN  BestMatchLoop(variant_name, Tail(image_files),
                           IF Replaces(similarity, acc[2]) THEN <<img_name, similarity>> ELSE acc)

ThresholdGe(highest_similarity, similarity_threshold) == Ge(highest_similarity, similarity_threshold)
PassesThreshold(highest_similarity, similarity_threshold) ==
    ThresholdGe(highest_similarity, similarity_threshold)

find_best_matching_image(variant_name, image_files, similarity_threshold) ==
    LET acc == BestMatchLoop(variant_name, image_files, <<None, Zero>>)
    IN  IF PassesThreshold(acc[2], similarity_threshold) THEN acc ELSE <<None, Zero>>

-----------------------------------------------------------------------------
(* The matcher on its own: every variant name and every list of file names *)

NoCall == [fn |-> "none"]
NoRet == <<>>

\* the lists of at most n distinct non-empty file names of at most c characters in all
RECURSIVE FileNameLists(_, _)
FileNameLists(n, c) ==
    {<<>>} \cup
    (IF n = 0 THEN {}
     ELSE UNION {{<<s>> \o rest : rest \in {r \in FileNameLists(n - 1, c - Len(s)) :
                                              \A i \in 1..Len(r) : r[i] # s}} :
                 s \in Strings(c) \ {<<>>}})

KeyLists == FileNameLists(MaxKeys, MaxKeyChars)

LoopIdle ==
    /\ df = <<>>
    /\ images_dict = [keys |-> <<>>, img |-> <<>>]
    /\ report_type = "CTR Report"
    /\ pc = "idle"
    /\ it = 0
    /\ index = Unbound
    /\ variant = Unbound
    /\ image_width = Unbound
    /\ image_height = Unbound
    /\ slide = <<>>
    /\ errors = <<>>
    /\ pptx_buffer = Unbound

MatchInit ==
    /\ \E v \in Strings(MaxLen), ks \in KeyLists :
          call = [fn |-> "find_best_matching_image", variant_name |-> v, image_files |-> ks]
    /\ ret = NoRet
    /\ LoopIdle

MatchCall ==
    /\ call.fn = "find_best_matching_image"
    /\ ret = NoRet
    /\ ret' = Bound(find_best_matching_image(call.variant_name, call.image_files, DefaultThreshold))
    /\ UNCHANGED <<call, loopVars>>

MatchNext == MatchCall
MatchSpec == MatchInit /\ [][MatchNext]_vars

\* what the claims about the matcher speak of
MatchReturned == call.fn = "find_best_matching_image" /\ ret # NoRet
SimOf(i) == KeySimilarity(call.variant_name, call.image_files[i])
KeyIndices == 1..Len(call.image_files)
CleanKeyInVariant(i) ==
    Contains(clean_string(call.variant_name),
             clean_string(splitext_root(call.image_files[i])))
IsMaximal(i) == \A j \in KeyIndices : Ge(SimOf(i), SimOf(j))
FirstMaximal(i) == IsMaximal(i) /\ \A j \in 1..(i - 1) : ~IsMaximal(j)

\* C4 as stated: a file name whose cleaned form is inside the cleaned variant
\* name scores exactly 0.8 and is the one returned whenever no other file name
\* scores strictly higher, whatever the order of the file names.
C4_AsStated ==
    MatchReturned =>
        \A i \in KeyIndices :
            CleanKeyInVariant(i) =>
                /\ SimOf(i) = SubstringSimilarity
                /\ (\A j \in KeyIndices \ {i} : ~Gt(SimOf(j), SubstringSimilarity))
                      => ValueOf(ret) = <<call.image_files[i], SubstringSimilarity>>

\* C4 amended: such a file name scores exactly 0.8 and is the one returned
\* whenever no other file name scores strictly higher and no file name before
\* it in the list scores 0.8 as well.
C4_SubstringKeyChosen ==
    MatchReturned =>
        \A i \in KeyIndices :
            CleanKeyInVariant(i) =>
                /\ SimOf(i) = SubstringSimilarity
                /\ ( /\ \A j \in KeyIndices \ {i} : ~Gt(SimOf(j), SubstringSimilarity)
                     /\ \A j \in 1..(i - 1) : ~Eq(SimOf(j), SubstringSimilarity) )
                      => ValueOf(ret) = <<call.image_files[i], SubstringSimilarity>>

\* a call returned the second of two file names: the second is inside the
\* variant name only after cleaning, the first scores lower
C4_Witness ==
    /\ MatchReturned
    /\ Len(call.image_files) = 2
    /\ CleanKeyInVariant(2)
    /\ clean_string(splitext_root(call.image_files[2])) # <<>>
    /\ ~Contains(call.variant_name, call.image_files[2])
    /\ Gt(SubstringSimilarity, SimOf(1))
    /\ ValueOf(ret) = <<call.image_files[2], SubstringSimilarity>>

\* C7: the call returns the first file name of maximal similarity together
\* with that similarity when the maximum reaches the threshold, and (None, 0)
\* otherwise; so a returned file name has a score between the threshold and 1,
\* and an empty list of file names gives (None, 0).
C7_FirstMaximumOrNone ==
    MatchReturned =>
        LET k == ValueOf(ret)[1]
            s == ValueOf(ret)[2]
        IN  /\ (\E i \in KeyIndices : Ge(SimOf(i), DefaultThreshold))
                 => \E i \in KeyIndices :
                        FirstMaximal(i) /\ k = call.image_files[i] /\ s = SimOf(i)
            /\ (\A i \in KeyIndices : ~Ge(SimOf(i), DefaultThreshold))
                 => k = None /\ s = Zero
            /\ k # None => Ge(s, DefaultThreshold) /\ Ge(<<1, 1>>, s)
            /\ call.image_files = <<>> => k = None /\ s = Zero

\* a call returned the first of two file names that both reach the maximum
C7_Witness ==
    /\ MatchReturned
    /\ Len(call.image_files) = 2
    /\ \A i \in 1..2 : clean_string(splitext_root(call.image_files[i])) # <<>>
    /\ Eq(SimOf(1), SimOf(2))
    /\ Ge(SimOf(1), DefaultThreshold)
    /\ ValueOf(ret)[1] = call.image_files[1]

-----------------------------------------------------------------------------
(* Float arithmetic.  int(k * (n / d)) and int(k / (n / d)) round the ratio  *)
(* n / d to a double first.  When the ratio is a double (its reduced          *)
(* denominator is a power of two) or the exact result is not an integer, the  *)
(* truncation is the exact floor; otherwise the rounded result is the exact   *)
(* integer or falls just below it, and int() gives one of the two.            *)

RECURSIVE GCD(_, _)
GCD(a, b) == IF b = 0 THEN a ELSE GCD(b, a % b)

RECURSIVE IsPowerOfTwo(_)
IsPowerOfTwo(n) == n = 1 \/ (n > 1 /\ n % 2 = 0 /\ IsPowerOfTwo(n \div 2))

RatioIsDouble(n, d) == IsPowerOfTwo(d \div GCD(n, d))

\* the values int(k * (n / d)) may take
IntOfProduct(k, n, d) ==
    LET q == (k * n) \div d
    IN  IF RatioIsDouble(n, d) \/ (k * n) % d # 0 THEN {q} ELSE {q, q - 1}

\* the values int(k / (n / d)) may take
IntOfQuotient(k, n, d) ==
    LET q == (k * d) \div n
    IN  IF RatioIsDouble(n, d) \/ (k * d) % n # 0 THEN {q} ELSE {q, q - 1}

-----------------------------------------------------------------------------
(* resize_image: the sizes it may return for an image of the given size *)

\* a variant that sends the square image to the width-constrained branch
resize_image_TieToWidth(size, max_width, max_height) ==
    LET width == size[1]
        height == size[2]
    IN  IF width > max_width \/ height > max_height
        THEN IF width >= height
             THEN {<<max_width, new_height>> : new_height \in IntOfQuotient(max_width, width, height)}
             ELSE {<<new_width, max_height>> : new_width \in IntOfProduct(max_height, width, height)}
        ELSE {<<width, height>>}

resize_image(size, max_width, max_height) ==
    LET width == size[1]
        height == size[2]
    IN  IF width > max_width \/ height > max_height
        THEN IF width > height    \* aspect_ratio > 1
             THEN {<<max_width, new_height>> : new_height \in IntOfQuotient(max_width, width, height)}
             ELSE {<<new_width, max_height>> : new_width \in IntOfProduct(max_height, width, height)}
        ELSE {<<width, height>>}

MaxDim == 10

FitInit ==
    /\ \E width, height, max_width, max_height \in 1..MaxDim :
          call = [fn |-> "resize_image", size |-> <<width, height>>,
                  max_width |-> max_width, max_height |-> max_height]
    /\ ret = NoRet
    /\ LoopIdle

FitCall ==
    /\ call.fn = "resize_image"
    /\ ret = NoRet
    /\ \E r \in resize_image(call.size, call.max_width, call.max_height) : ret' = Bound(r)
    /\ UNCHANGED <<call, loopVars>>

FitNext == FitCall
FitSpec == FitInit /\ [][FitNext]_vars

FitReturned == call.fn = "resize_image" /\ ret # NoRet
MustScaleDown == call.size[1] > call.max_width \/ call.size[2] > call.max_height

\* C1: the size returned exceeds neither bound and neither natural dimension.
C1_FitWithinBounds ==
    FitReturned =>
        /\ ValueOf(ret)[1] <= call.max_width
        /\ ValueOf(ret)[2] <= call.max_height
        /\ ValueOf(ret)[1] <= call.size[1]
        /\ ValueOf(ret)[2] <= call.size[2]

\* C8 as stated: a square image that must be scaled down comes out
\* width-constrained, as (max_width, int(max_width / 1)).
C8_AsStated ==
    (FitReturned /\ MustScaleDown /\ call.size[1] = call.size[2])
        => ValueOf(ret) = <<call.max_width, call.max_width>>

\* C8 amended: a square image that must be scaled down comes out
\* height-constrained, as (int(max_height * 1), max_height).
C8_SquareIsHeightConstrained ==
    (FitReturned /\ MustScaleDown /\ call.size[1] = call.size[2])
        => ValueOf(ret) = <<call.max_height, call.max_height>>

\* a square image over bounds that differ has been fitted
C8_Witness ==
    /\ FitReturned
    /\ MustScaleDown
    /\ call.size[1] = call.size[2]
    /\ call.max_width > call.max_height
    /\ ValueOf(ret) = <<call.max_height, call.max_height>>

-----------------------------------------------------------------------------
(* The grid of create_ppt_from_data, lines 139-168.  Lengths are in EMU:    *)
(* Inches(x) is int(x * 914400), and for each literal x = n / d of the      *)
(* source that product is the exact integer n * 914400 / d.                 *)

Inches(n, d) == (n * 914400) \div d

items_per_row == 2
left_margin == Inches(1, 1)
top_margin(rt) == IF rt = "CTR Report" THEN Inches(1, 1) ELSE Inches(18, 10)
spacing_y(rt) == Inches(28, 10)
spacing_x(rt) == IF rt = "CTR Report" THEN Inches(3, 1) + Inches(2, 1) ELSE Inches(3, 1) + Inches(1, 1)

\* a variant that takes the row for the column and the column for the row
GridCellSwapped(i) == <<i % items_per_row, i \div items_per_row>>

\* <<row_num, col_num>> of the entry with the given index, lines 164-165
GridCell(i) == <<i \div items_per_row, i % items_per_row>>

\* <<left, top>> of the entry with the given index, lines 167-168
Position(i, rt) ==
    <<left_margin + GridCell(i)[2] * spacing_x(rt), top_margin(rt) + GridCell(i)[1] * spacing_y(rt)>>

MaxIndex == 60
ReportTypes == {"CTR Report", "VCR Report"}

GridInit ==
    /\ \E i \in 0..MaxIndex, rt \in ReportTypes :
          call = [fn |-> "position", index |-> i, report_type |-> rt]
    /\ ret = NoRet
    /\ LoopIdle

GridCall ==
    /\ call.fn = "position"
    /\ ret = NoRet
    /\ ret' = Bound([cell |-> GridCell(call.index),
                      at |-> Position(call.index, call.report_type)])
    /\ UNCHANGED <<call, loopVars>>

GridNext == GridCall
GridSpec == GridInit /\ [][GridNext]_vars

GridReturned == call.fn = "position" /\ ret # NoRet

\* C3 as stated: every index is in the row of index + 1 and in the column of
\* index + 2.
C3_AsStated ==
    GridReturned =>
        /\ ValueOf(ret).cell[1] = GridCell(call.index + 1)[1]
        /\ ValueOf(ret).at[2] = Position(call.index + 1, call.report_type)[2]
        /\ ValueOf(ret).cell[2] = GridCell(call.index + 2)[2]
        /\ ValueOf(ret).at[1] = Position(call.index + 2, call.report_type)[1]

\* C3 amended: every index is in the column of index + 2 and one row above
\* it; an even index is in the row of index + 1, an odd index is not.
C3_GridNeighbours ==
    GridReturned =>
        /\ ValueOf(ret).cell[2] = GridCell(call.index + 2)[2]
        /\ ValueOf(ret).at[1] = Position(call.index + 2, call.report_type)[1]
        /\ ValueOf(ret).cell[1] + 1 = GridCell(call.index + 2)[1]
        /\ (call.index % 2 = 0) <=> (ValueOf(ret).cell[1] = GridCell(call.index + 1)[1])
        /\ (call.index % 2 = 0) <=> (ValueOf(ret).at[2] = Position(call.index + 1, call.report_type)[2])

\* the cell of an odd index beyond the first row has been computed
C3_Witness ==
    /\ GridReturned
    /\ call.index = 3
    /\ ValueOf(ret).cell = <<1, 1>>
    /\ GridCell(call.index + 1) = <<2, 0>>

-----------------------------------------------------------------------------
(* calculate_metrics.  A row is a function from column names to values.     *)

MaxRows == 3
MaxCount == 1

NumeratorColumn(rt) == IF rt = "CTR Report" THEN "Click-throughs" ELSE "Video complete"
DenominatorColumn(rt) == IF rt = "CTR Report" THEN "Impressions" ELSE "Video start"

Row(v, num, den, rt) ==
    [c \in {"Variant", NumeratorColumn(rt), DenominatorColumn(rt)} |->
        IF c = "Variant" THEN v ELSE IF c = NumeratorColumn(rt) THEN num ELSE den]

\* the datasets of at most MaxRows rows; a pair is <<numerator, denominator>>
Datasets(names, pairs, rt) ==
    LET rows == {Row(v, p[1], p[2], rt) : v \in names, p \in pairs}
    IN  UNION {[1..n -> rows] : n \in 0..MaxRows}

\* df[df['Variant'] == variant][column].sum()
RECURSIVE ColumnSum(_, _, _)
ColumnSum(rows, v, column) ==
    IF rows = <<>> THEN 0
    ELSE (IF Head(rows)["Variant"] = v THEN Head(rows)[column] ELSE 0)
         + ColumnSum(Tail(rows), v, column)

\* a variant that divides without looking at the denominator
calculate_metrics_Unguarded(rows, v, rt) ==
    IF rt = "CTR Report"
    THEN LET total_clicks == ColumnSum(rows, v, "Click-throughs")
             total_impressions == ColumnSum(rows, v, "Impressions")
         IN  <<total_clicks, total_impressions, <<total_clicks, total_impressions>>>>
    ELSE LET video_starts == ColumnSum(rows, v, "Video start")
             video_completes == ColumnSum(rows, v, "Video complete")
         IN  <<video_starts, video_completes, <<video_completes, video_starts>>>>

\* <<val1, val2, rate>>; the rate is the quotient <<numerator, denominator>>
calculate_metrics(rows, v, rt) ==
    IF rt = "CTR Report"
    THEN LET total_clicks == ColumnSum(rows, v, "Click-throughs")
             total_impressions == ColumnSum(rows, v, "Impressions")
             rate == IF total_impressions > 0 THEN <<total_clicks, total_impressions>> ELSE Zero
         IN  <<total_clicks, total_impressions, rate>>
    ELSE LET video_starts == ColumnSum(rows, v, "Video start")
             video_completes == ColumnSum(rows, v, "Video complete")
             vcr == IF video_starts > 0 THEN <<video_completes, video_starts>> ELSE Zero
         IN  <<video_starts, video_completes, vcr>>

MetricNames == {<<"a">>, <<"B">>}

MetricsInit ==
    /\ \E rt \in ReportTypes :
          \E rows \in Datasets(MetricNames, (0..MaxCount) \X (0..MaxCount), rt),
             v \in MetricNames :
             call = [fn |-> "calculate_metrics", df |-> rows, variant |-> v, report_type |-> rt]
    /\ ret = NoRet
    /\ LoopIdle

MetricsCall ==
    /\ call.fn = "calculate_metrics"
    /\ ret = NoRet
    /\ ret' = Bound(calculate_metrics(call.df, call.variant, call.report_type))
    /\ UNCHANGED <<call, loopVars>>

MetricsNext == MetricsCall
MetricsSpec == MetricsInit /\ [][MetricsNext]_vars

\* the sum of f over a finite set of indices
RECURSIVE SumOver(_, _)
SumOver(S, f) ==
    IF S = {} THEN 0 ELSE LET x == CHOOSE y \in S : TRUE IN f[x] + SumOver(S \ {x}, f)

\* the total of a column over the rows of a dataset whose Variant is v
Total(rows, v, column) ==
    SumOver({i \in 1..Len(rows) : rows[i]["Variant"] = v}, [i \in 1..Len(rows) |-> rows[i][column]])

MetricsReturned == call.fn = "calculate_metrics" /\ ret # NoRet

\* C5: the rate is exactly 0 when the denominator column sums to 0, whatever
\* the numerator, and the quotient of the numerator total by the denominator
\* total otherwise.
C5_RateZeroOrQuotient ==
    MetricsReturned =>
        LET num == Total(call.df, call.variant, NumeratorColumn(call.report_type))
            den == Total(call.df, call.variant, DenominatorColumn(call.report_type))
            rate == ValueOf(ret)[3]
        IN  /\ rate[2] # 0
            /\ den = 0 => rate = Zero
            /\ den # 0 => Eq(rate, <<num, den>>)

\* a rate of 0 was returned for a variant with clicks and no impressions
C5_Witness ==
    /\ MetricsReturned
    /\ call.report_type = "CTR Report"
    /\ Total(call.df, call.variant, "Click-throughs") > 0
    /\ Total(call.df, call.variant, "Impressions") = 0
    /\ ValueOf(ret)[3] = Zero

-----------------------------------------------------------------------------
(* create_ppt_from_data: text of the entries.  A text is a sequence of       *)
(* fragments; the counters are formatted with thousands separators and the   *)
(* rate as a percentage with two decimals.                                   *)

DigitChar(d) == <<"0", "1", "2", "3", "4", "5", "6", "7", "8", "9">>[d + 1]

RECURSIVE Decimal(_)
Decimal(n) == IF n < 10 THEN <<DigitChar(n)>> ELSE Decimal(n \div 10) \o <<DigitChar(n % 10)>>

\* f"{n:,}"
RECURSIVE FormatThousands(_)
FormatThousands(n) ==
    IF n < 1000 THEN Decimal(n)
    ELSE FormatThousands(n \div 1000)
         \o <<",", DigitChar((n % 1000) \div 100), DigitChar((n % 100) \div 10), DigitChar(n % 10)>>

\* f"{rate:.2%}": the rate in hundredths of a percent, rounded to the nearest
\* (no rate of the datasets considered falls half way between two)
FormatPercent(rate) ==
    LET h == (2 * 10000 * rate[1] + rate[2]) \div (2 * rate[2])
    IN  Decimal(h \div 100) \o <<".", DigitChar((h % 100) \div 10), DigitChar(h % 10), "%">>

\* the three metric lines, lines 216-227
MetricLines(metrics, rt) ==
    IF rt = "CTR Report"
    THEN << <<"Click-throughs: ">> \o FormatThousands(metrics[1]),
            <<"Impressions: ">> \o FormatThousands(metrics[2]),
            <<"CTR: ">> \o FormatPercent(metrics[3]) >>
    ELSE << <<"Video starts: ">> \o FormatThousands(metrics[1]),
            <<"Video completes: ">> \o FormatThousands(metrics[2]),
            <<"VCR: ">> \o FormatPercent(metrics[3]) >>

CreativeLabel(v) == <<"Creative: ">> \o v

Shape(kind, left, top, width, height, text) ==
    [kind |-> kind, left |-> left, top |-> top, width |-> width, height |-> height, text |-> text]

\* the title box, lines 151-155
TitleBox(rt) ==
    Shape("title", Inches(1, 1), IF rt = "CTR Report" THEN Inches(2, 10) ELSE Inches(5, 10),
          Inches(8, 1), Inches(5, 10),
          << IF rt = "CTR Report" THEN <<"Creatives Static Performance Report">>
                                  ELSE <<"Creatives Video Performance Report">> >>)

-----------------------------------------------------------------------------
(* create_ppt_from_data: the dataset and the images *)

VariantColumn(rows) == [i \in 1..Len(rows) |-> rows[i]["Variant"]]

InSeq(x, sq) == \E i \in 1..Len(sq) : sq[i] = x

\* a variant that keeps the last appearance of each value instead of the first
RECURSIVE unique_KeepLast(_)
unique_KeepLast(column) ==
    IF column = <<>> THEN <<>>
    ELSE (IF InSeq(Head(column), Tail(column)) THEN <<>> ELSE <<Head(column)>>)
         \o unique_KeepLast(Tail(column))

\* Series.unique(): the distinct values in order of first appearance
RECURSIVE unique(_)
unique(column) ==
    IF column = <<>> THEN <<>>
    ELSE LET before == unique(SubSeq(column, 1, Len(column) - 1))
             last == column[Len(column)]
         IN  IF InSeq(last, before) THEN before ELSE Append(before, last)

Variants == unique(VariantColumn(df))

\* an image: none when the frame extraction returned None (line 79), its size,
\* and whether img.save succeeds
Image(none, size, saves) == [none |-> none, size |-> size, saves |-> saves]

Keys(d) == [i \in 1..Len(d) |-> d[i].key]
Lookup(d, k) == (CHOOSE e \in {d[i] : i \in 1..Len(d)} : e.key = k).img

\* pixels_to_inches(pixels) = Inches(pixels / 96): the values it may take
pixels_to_inches(pixels) == IntOfProduct(914400, pixels, 96)

\* "if matched_image:", line 173
Truthy(matched_image) == matched_image # None /\ matched_image # <<>>

-----------------------------------------------------------------------------
(* create_ppt_from_data: one pass of the loop body, lines 170-237.  An      *)
(* outcome is what the pass leaves: the locals image_width and image_height, *)
(* the shapes it added, and whether it raised.                               *)

Outcome(raised, iw, ih, shapes) ==
    [raised |-> raised, image_width |-> iw, image_height |-> ih, shapes |-> shapes]

\* lines 200-237: the label and the metrics, placed from image_width and image_height
TextPart(i, v, iw, ih, shapes) ==
    IF ih = Unbound \/ iw = Unbound
    THEN Outcome(TRUE, iw, ih, shapes)      \* line 200 reads an unbound local
    ELSE LET at == Position(i, report_type)
             text_top == at[2] + ValueOf(ih) + Inches(1, 10)
             name_box == Shape("name", at[1], text_top, ValueOf(iw), Inches(2, 10),
                               <<CreativeLabel(v)>>)
             metrics == calculate_metrics(df, v, report_type)
             metrics_box == Shape("metrics", at[1], text_top + Inches(25, 100), ValueOf(iw),
                                  Inches(6, 10), MetricLines(metrics, report_type))
         IN  Outcome(FALSE, iw, ih, shapes \o <<name_box, metrics_box>>)

\* lines 172-197 followed by the text part
IterationOutcomes(i, v, iw, ih) ==
    LET matched_image == find_best_matching_image(v, Keys(images_dict), DefaultThreshold)[1]
    IN  IF ~Truthy(matched_image)
        THEN {TextPart(i, v, iw, ih, <<>>)}
        ELSE LET img == Lookup(images_dict, matched_image)
                 at == Position(i, report_type)
             IN  IF img.none
                 THEN {Outcome(TRUE, iw, ih, <<>>)}      \* line 39: None has no size
                 ELSE UNION {
                        { IF ~img.saves
                          THEN Outcome(TRUE, Bound(w), Bound(h), <<>>)     \* line 180 raises
                          ELSE TextPart(i, v, Bound(w), Bound(h),
                                  (IF report_type = "VCR Report"
                                   THEN <<Shape("border", at[1], at[2], w, h, <<>>)>>
                                   ELSE <<>>)
                                  \o <<Shape("picture", at[1], at[2], w, h, <<>>)>>)
                          : w \in pixels_to_inches(sz[1]), h \in pixels_to_inches(sz[2]) }
                        : sz \in resize_image(img.size, 220, 180) }

\* a variant of the handler that lets the exception leave the function
ExceptHandler_Propagate(v) ==
    /\ errors' = errors
    /\ pc' = "raised"

\* except Exception as e: st.error(...), lines 239-240; the loop goes on
ExceptHandler(v) ==
    /\ errors' = Append(errors, v)
    /\ pc' = pc

LoopIteration ==
    /\ pc = "loop"
    /\ it < Len(Variants)
    /\ LET i == it
           v == Variants[it + 1]
       IN  /\ it' = it + 1
           /\ index' = Bound(i)
           /\ variant' = Bound(v)
           /\ \E o \in IterationOutcomes(i, v, image_width, image_height) :
                 /\ image_width' = o.image_width
                 /\ image_height' = o.image_height
                 /\ slide' = slide \o o.shapes
                 /\ IF o.raised
                    THEN ExceptHandler(v)
                    ELSE errors' = errors /\ pc' = pc
    /\ UNCHANGED <<call, ret, df, images_dict, report_type, pptx_buffer>>

\* lines 242-245: the deck is saved to the buffer and returned
Return ==
    /\ pc = "loop"
    /\ it = Len(Variants)
    /\ pc' = "done"
    /\ pptx_buffer' = Bound(slide)
    /\ UNCHANGED <<call, ret, df, images_dict, report_type, it, index, variant,
                   image_width, image_height, slide, errors>>

ReportNames == {<<"a", ".", "B">>, <<"B">>}
\* a row with no traffic, one with a numerator and no denominator, one with both
ReportCounts == {<<0, 0>>, <<MaxCount, 0>>, <<1, MaxCount>>}
FileNames == {<<"a", ".", "a">>, <<"B", "B", ".", "a">>}
\* an image that is scaled down and saved; and one that fails: for a CTR
\* report an opened file that cannot be saved, for a VCR report the None of
\* a frame that could not be read (lines 320-328)
Images(rt) ==
    {Image(FALSE, <<200, 400>>, TRUE),
     IF rt = "CTR Report" THEN Image(FALSE, <<96, 48>>, FALSE) ELSE Image(TRUE, <<0, 0>>, FALSE)}

\* the non-empty dictionaries of at most MaxKeys files (main() calls the
\* function only when files were uploaded, line 333)
ImageDicts(rt) ==
    LET entries == {[key |-> k, img |-> im] : k \in FileNames, im \in Images(rt)}
    IN  {d \in UNION {[1..n -> entries] : n \in 1..MaxKeys} :
            \A i, j \in 1..Len(d) : i # j => d[i].key # d[j].key}

Init ==
    /\ call = NoCall
    /\ ret = NoRet
    /\ report_type \in ReportTypes
    /\ df \in Datasets(ReportNames, ReportCounts, report_type)
    /\ images_dict \in ImageDicts(report_type)
    /\ pc = "loop"
    /\ it = 0
    /\ index = Unbound
    /\ variant = Unbound
    /\ image_width = Unbound
    /\ image_height = Unbound
    /\ slide = <<TitleBox(report_type)>>
    /\ errors = <<>>
    /\ pptx_buffer = Unbound

Next == LoopIteration \/ Return
Spec == Init /\ [][Next]_vars

-----------------------------------------------------------------------------
(* What the claims about the loop speak of *)

\* the variants the loop has been through, in order
Attempted == SubSeq(Variants, 1, it)

NameBoxes == {k \in 1..Len(slide) : slide[k].kind = "name"}
LabelledVariant(k) == Tail(slide[k].text[1])
NameBoxesOf(v) == {k \in NameBoxes : slide[k].text = <<CreativeLabel(v)>>}
ErrorsOf(v) == {k \in 1..Len(errors) : errors[k] = v}

MatchOf(v) == find_best_matching_image(v, Keys(images_dict), DefaultThreshold)[1]

\* the entry of the variant at position i (index i - 1): its label at slide[k]
\* and, right after it, its three metric lines
IsEntryAt(k, i) ==
    /\ k \in NameBoxes
    /\ k + 1 <= Len(slide)
    /\ slide[k].text = <<CreativeLabel(Variants[i])>>
    /\ slide[k].left = Position(i - 1, report_type)[1]
    /\ slide[k + 1].kind = "metrics"
    /\ slide[k + 1].left = slide[k].left
    /\ slide[k + 1].top = slide[k].top + Inches(25, 100)
    /\ Len(slide[k + 1].text) = 3

HasEntry(i) == \E k \in NameBoxes : IsEntryAt(k, i)

\* C2: every variant the loop has been through for which the matcher returns
\* no asset has its entry (label and three metric lines), no picture, and no
\* error reported for it.
C2_UnmatchedVariantHasEntry ==
    \A i \in 1..it :
        MatchOf(Variants[i]) = None =>
            /\ HasEntry(i)
            /\ ErrorsOf(Variants[i]) = {}

\* C10: the width and height that place a variant's label were computed from
\* the asset matched to that same variant.
C10_TextPlacedFromOwnAsset ==
    \A i \in 1..it : \A k \in NameBoxes :
        IsEntryAt(k, i) =>
            /\ Truthy(MatchOf(Variants[i]))
            /\ \E sz \in resize_image(Lookup(images_dict, MatchOf(Variants[i])).size, 220, 180) :
                  /\ slide[k].width \in pixels_to_inches(sz[1])
                  /\ \E h \in pixels_to_inches(sz[2]) :
                        slide[k].top = Position(i - 1, report_type)[2] + h + Inches(1, 10)

\* s lists every Variant value of the rows once, in order of first appearance
FirstIndex(v, rows) == CHOOSE i \in 1..Len(rows) :
                          rows[i]["Variant"] = v /\ \A j \in 1..(i - 1) : rows[j]["Variant"] # v
IsFirstAppearanceOrder(sq, rows) ==
    /\ {sq[i] : i \in 1..Len(sq)} = {rows[i]["Variant"] : i \in 1..Len(rows)}
    /\ \A i, j \in 1..Len(sq) : i < j => FirstIndex(sq[i], rows) < FirstIndex(sq[j], rows)

\* the positions, in increasing order, of the name boxes of the slide
RECURSIVE SortedSeq(_)
SortedSeq(S) ==
    IF S = {} THEN <<>>
    ELSE LET m == CHOOSE x \in S : \A y \in S : x <= y IN <<m>> \o SortedSeq(S \ {m})

C9_FailureIsolated ==
    /\ pc \in {"loop", "done"}
    /\ \A i \in 1..it : HasEntry(i) \/ ErrorsOf(Variants[i]) # {}
    /\ \A k \in 1..Len(errors) : InSeq(errors[k], Attempted)
    /\ pc = "loop" =>
          \/ it = Len(Variants)
          \/ /\ it < Len(Variants)
             /\ IterationOutcomes(it, Variants[it + 1], image_width, image_height) # {}
    /\ pc = "done" => it = Len(Variants) /\ pptx_buffer = Bound(slide)

\* the function returned after the first variant failed on its image and the
\* second got its entry
C9_Witness ==
    /\ pc = "done"
    /\ Len(Variants) = 2
    /\ errors = <<Variants[1]>>
    /\ Truthy(MatchOf(Variants[1]))
    /\ HasEntry(2)
    /\ pptx_buffer # Unbound

====
